---------------------------- MODULE Spec2Model ----------------------------
(***************************************************************************)
(* Model of tools/sv_elev_azim.py: the batch driver that walks the NAV     *)
(* test pool, filters the Kepler records georinex reports and writes one   *)
(* entry per ready (epoch, satellite) pair.                                *)
(*                                                                         *)
(* Representation                                                          *)
(*  - A satellite identifier "G05" is the pair <<"G", 5>>; Python's sv[0]  *)
(*    is sv[1] here.                                                       *)
(*  - A float is [nan, whole, frac]: NaN, or whole + frac/10 (frac in      *)
(*    0..9, values are non-negative).  int() drops the fraction.           *)
(*  - Python's None is the empty tuple <<>>, a value v is <<v>>.           *)
(*  - Time counts from 1970-01-01T00:00, the zero of numpy's datetime64.   *)
(*    A datetime / timedelta is a whole number of ticks, a datetime64[ns]  *)
(*    a whole number of sub-ticks, NsPerUs to the tick.  The tick is one   *)
(*    hour instead of one microsecond so that TLC's integers hold the      *)
(*    dates; the arithmetic is whole-number arithmetic at either scale.    *)
(***************************************************************************)
EXTENDS Integers, Sequences, FiniteSets, TLC

VARIABLES
    argv,           \* main's argument list
    listing,        \* base_dir/NAV as os.listdir reports it: <<[rev, files]>>
    ri, fi,         \* position of the rev / fp loops (1-based)
    nav,            \* the dataset gr.load returned for the current file
    ei, si,         \* position of the epoch / sv loops (1-based)
    kepler,         \* the record built for the current pair
    weeks,          \* local weeks
    tgnss,          \* local tgnss
    week_offset,    \* local week_offset
    expected_ecef,  \* local expected_ecef
    out,            \* entries written to the current file's stream
    fdOpen,         \* the stream of the with-block is open
    pc,             \* position of the driver (or of the caller of kepler_ready)
    exc,            \* the exception that left main, "none" otherwise
    rc,             \* main's return value, <<>> until it returns
    sv,             \* argument of the readiness call (SpecReady)
    ret             \* result of the readiness call (SpecReady)

vars == <<argv, listing, ri, fi, nav, ei, si, kepler, weeks, tgnss,
          week_offset, expected_ecef, out, fdOpen, pc, exc, rc, sv, ret>>

-----------------------------------------------------------------------------
(* Bounds of the model *)

MaxEpochs == 2      \* epochs per navigation file
MaxMissing == 1     \* fields missing from a record handed to kepler_ready
MaxNaN == 1         \* NaN-valued fields of a record handed to kepler_ready

-----------------------------------------------------------------------------
(* Values *)

None == <<>>
Some(v) == <<v>>

NaN == [nan |-> TRUE, whole |-> 0, frac |-> 0]
Float(w, f) == [nan |-> FALSE, whole |-> w, frac |-> f]

\* math.isnan
isnan(x) == x.nan

\* int() of a non-negative float: truncation
int(x) == x.whole

\* 1980-01-06T00:00 in ticks (hours) since 1970-01-01: 3657 days
Origin == 87768

\* timedelta(weeks=1) in ticks
Week == 168

\* sub-ticks of datetime64[ns] per tick of datetime64[us]
NsPerUs == 1000

\* epoch.astype("datetime64[us]").astype(datetime)
AsDatetime(epoch) == epoch \div NsPerUs

-----------------------------------------------------------------------------
(* Module-level tables and helpers of sv_elev_azim.py *)

gr_kepler_fields ==
    << "GPSWeek", "BDTWeek", "GALWeek", "Toe", "Eccentricity", "sqrtA",
       "Cic", "Crc", "Cis", "Crs", "Cuc", "Cus", "DeltaN", "Omega0",
       "omega", "Io", "OmegaDot", "IDOT", "M0" >>

Fields == { gr_kepler_fields[i] : i \in DOMAIN gr_kepler_fields }

\* the test `"Week" in key` of kepler_ready
HasWeekInName(key) == key \in {"GPSWeek", "BDTWeek", "GALWeek"}

sv_is_glonass(s) == s[1] = "R"
sv_is_galileo(s) == s[1] = "E"
sv_is_gps(s) == s[1] = "G"
sv_is_beidou(s) == s[1] = "C"
sv_is_sbas(s) == s[1] = "S"

sv_to_constell_NoElse(s) ==
    IF s[1] = "G" THEN Some("GPS")
    ELSE IF s[1] = "E" THEN Some("GAL")
    ELSE IF s[1] = "C" THEN Some("BDT")
    ELSE IF s[1] = "J" THEN Some("QZSS")
    ELSE Some("UNKNOWN")

sv_to_constell(s) ==
    IF s[1] = "G" THEN Some("GPS")
    ELSE IF s[1] = "E" THEN Some("GAL")
    ELSE IF s[1] = "C" THEN Some("BDT")
    ELSE IF s[1] = "J" THEN Some("QZSS")
    ELSE None

\* The result of a call: a value, or the exception it raised.
Returns(v) == [raised |-> "none", val |-> v]
Raises(e) == [raised |-> e, val |-> 0]

\* sv_is_qzss is defined nowhere in the module: evaluating the fourth
\* condition raises NameError, whatever sv is.
timescale_t0(s) ==
    IF sv_is_gps(s) THEN Returns(Origin)
    ELSE IF sv_is_beidou(s) THEN Returns(Origin)
    ELSE IF sv_is_galileo(s) THEN Returns(Origin)
    ELSE Raises("NameError")

kepler_hasnan_WeekExempt(k) ==
    \E key \in DOMAIN k : ~HasWeekInName(key) /\ isnan(k[key])

kepler_hasnan(k) == \E key \in DOMAIN k : isnan(k[key])

WeekCounterNames == << "GPSWeek", "GALWeek", "BDTWeek" >>

RECURSIVE FirstWeek(_, _)
FirstWeek(k, i) ==
    IF i > Len(WeekCounterNames) THEN None
    ELSE IF WeekCounterNames[i] \in DOMAIN k
         THEN Some(int(k[WeekCounterNames[i]]))
         ELSE FirstWeek(k, i + 1)

kepler_weekcounter_Default(k) ==
    IF FirstWeek(k, 1) = None THEN Some(0) ELSE FirstWeek(k, 1)

kepler_weekcounter(k) == FirstWeek(k, 1)

kepler_has_weekcounter(k) == kepler_weekcounter(k) # None

kepler_ready_NoFieldLoop(k) ==
    IF kepler_hasnan(k) THEN FALSE
    ELSE IF ~kepler_has_weekcounter(k) THEN FALSE
    ELSE TRUE

kepler_ready(k) ==
    IF kepler_hasnan(k) THEN FALSE
    ELSE IF ~kepler_has_weekcounter(k) THEN FALSE
    ELSE IF \E i \in DOMAIN gr_kepler_fields :
                /\ ~HasWeekInName(gr_kepler_fields[i])
                /\ gr_kepler_fields[i] \notin DOMAIN k
         THEN FALSE
    ELSE TRUE

\* the entry form_entry writes (the fields that vary; ref_pos, elev and azi
\* are the same constants in every entry)
form_entry(epoch, s, ecef, k) ==
    [ epoch |-> epoch,
      prn |-> s[2],
      constellation |-> sv_to_constell(s),
      week |-> kepler_weekcounter(k),
      ecef |-> ecef ]

supported_rev == {"V2", "V3"}

-----------------------------------------------------------------------------
(* What the collaborators hand to the driver: the directory listings and    *)
(* the datasets gr.load returns.                                            *)

SvSamples ==
    { <<"G", 5>>, <<"E", 11>>, <<"C", 7>>, <<"J", 1>>,
      <<"R", 3>>, <<"S", 20>>, <<"X", 1>> }

VehicleSamples ==
    { << <<"G", 5>> >>,
      << <<"G", 5>>, <<"R", 3>> >>,
      << <<"R", 3>>, <<"E", 11>> >>,
      << <<"J", 1>> >>,
      << <<"C", 7>>, <<"J", 1>> >>,
      << <<"S", 20>>, <<"X", 1>> >>,
      << <<"X", 1>>, <<"C", 7>>, <<"G", 5>> >> }

WeekFields == {"GPSWeek", "GALWeek", "BDTWeek"}

\* the variables a dataset holds: every field, or some of them missing
VarSamples ==
    { Fields,
      Fields \ {"GPSWeek"},
      Fields \ {"GPSWeek", "GALWeek"},
      Fields \ WeekFields,
      Fields \ {"Toe"} }

\* the week number a file broadcasts: whole, or (malformed) fractional
WeekSamples == { Float(2100, 0), Float(2099, 0), Float(2100, 5) }

\* the three week-counter variables of one file carry different numbers
WeekValue(field, w) ==
    IF field = "GPSWeek" THEN w
    ELSE IF field = "GALWeek" THEN Float(w.whole + 1, w.frac)
    ELSE Float(w.whole + 2, w.frac)

\* the i-th epoch of a file, as datetime64[ns]: the first is the very start
\* of GPS week 2100, the following ones two hours apart
EpochAt(i) == (Origin + 2100 * Week + (i - 1) * 2) * NsPerUs

NoNaN == [e |-> 0, s |-> 0, f |-> ""]

\* at most one value of a file is NaN
NanSamples(n, v) ==
    {NoNaN} \cup
    { [e |-> e, s |-> s, f |-> f] :
        e \in 1..n, s \in 1..Len(v), f \in {"Eccentricity", "GPSWeek"} }

NavSamples ==
    UNION { UNION { { [ epochs |-> [i \in 1..n |-> EpochAt(i)],
                        vehicles |-> v,
                        vars |-> vs,
                        week |-> w,
                        nanAt |-> na ] :
                      vs \in VarSamples, w \in WeekSamples, na \in NanSamples(n, v) } :
                    v \in VehicleSamples } :
            n \in 1..MaxEpochs }

NoNav == [ epochs |-> <<>>, vehicles |-> <<>>, vars |-> {},
           week |-> NaN, nanAt |-> NoNaN ]

\* nav.sel(time=epoch).sel(sv=sv).variables[field].values
NavValue(d, e, s, field) ==
    IF d.nanAt = [e |-> e, s |-> s, f |-> field] THEN NaN
    ELSE IF field \in WeekFields THEN WeekValue(field, d.week)
    ELSE Float(1, 0)

\* lines 177-183: the fields of gr_kepler_fields that are variables of the
\* dataset, with the values of the pair
NavRecord(d, e, s) ==
    [ field \in { f \in Fields : f \in d.vars } |-> NavValue(d, e, s, field) ]

DirSamples ==
    { << >>,
      << [rev |-> "V2", files |-> << "a" >>] >>,
      << [rev |-> "V1", files |-> << "a" >>],
         [rev |-> "V2", files |-> << "a", "b" >>] >>,
      << [rev |-> "V3", files |-> << >>],
         [rev |-> "V2", files |-> << "b" >>],
         [rev |-> "V3", files |-> << "c" >>] >> }

\* gr.keplerian2ecef(struct): the position is a function of the record and of
\* the time coordinate; the model keeps the time coordinate
keplerian2ecef(k, t) == << "ecef", t >>

-----------------------------------------------------------------------------
(* main *)

Idle ==
    /\ nav = NoNav /\ ei = 0 /\ si = 0
    /\ kepler = << >> /\ weeks = 0 /\ tgnss = 0 /\ week_offset = 0
    /\ expected_ecef = None /\ out = << >> /\ fdOpen = FALSE

Init ==
    /\ argv \in { << >>, << "pool" >> }
    /\ listing \in DirSamples
    /\ ri = 0 /\ fi = 0
    /\ Idle
    /\ pc = "main" /\ exc = "none" /\ rc = None
    /\ sv = << "G", 0 >> /\ ret = FALSE

CurEpoch == nav.epochs[ei]
CurSv == nav.vehicles[si]

\* lines 144-151: usage, or entry of the rev loop
Enter ==
    /\ pc = "main"
    /\ IF Len(argv) = 0
       THEN /\ rc' = Some(0) /\ pc' = "returned" /\ ri' = ri
       ELSE /\ ri' = 1 /\ pc' = "rev" /\ rc' = rc
    /\ UNCHANGED <<argv, listing, fi, nav, ei, si, kepler, weeks, tgnss,
                   week_offset, expected_ecef, out, fdOpen, exc, sv, ret>>

\* lines 151-154 and 237: head of the rev loop
NextRev ==
    /\ pc = "rev"
    /\ IF ri > Len(listing)
       THEN /\ rc' = Some(0) /\ pc' = "returned" /\ UNCHANGED <<ri, fi>>
       ELSE IF listing[ri].rev \notin supported_rev
       THEN /\ ri' = ri + 1 /\ UNCHANGED <<fi, pc, rc>>
       ELSE /\ fi' = 1 /\ pc' = "file" /\ UNCHANGED <<ri, rc>>
    /\ UNCHANGED <<argv, listing, nav, ei, si, kepler, weeks, tgnss,
                   week_offset, expected_ecef, out, fdOpen, exc, sv, ret>>

\* lines 154-163: head of the fp loop, gr.load
NextFile ==
    /\ pc = "file"
    /\ IF fi > Len(listing[ri].files)
       THEN /\ ri' = ri + 1 /\ pc' = "rev" /\ nav' = nav
       ELSE /\ nav' \in NavSamples /\ pc' = "open" /\ ri' = ri
    /\ UNCHANGED <<argv, listing, fi, ei, si, kepler, weeks, tgnss,
                   week_offset, expected_ecef, out, fdOpen, exc, rc, sv, ret>>

Open_SkipFile ==
    /\ pc = "open"
    /\ \/ /\ fdOpen' = TRUE /\ out' = << >> /\ ei' = 1 /\ pc' = "epoch"
          /\ UNCHANGED <<exc, fi>>
       \/ /\ fi' = fi + 1 /\ pc' = "file"
          /\ UNCHANGED <<fdOpen, out, ei, exc>>
    /\ UNCHANGED <<argv, listing, ri, nav, si, kepler, weeks, tgnss,
                   week_offset, expected_ecef, rc, sv, ret>>

\* line 164: open(txt_path, "w") succeeds, or raises OSError
Open ==
    /\ pc = "open"
    /\ \/ /\ fdOpen' = TRUE /\ out' = << >> /\ ei' = 1 /\ pc' = "epoch"
          /\ exc' = exc
       \/ /\ exc' = "OSError" /\ pc' = "raised"
          /\ UNCHANGED <<fdOpen, out, ei>>
    /\ UNCHANGED <<argv, listing, ri, fi, nav, si, kepler, weeks, tgnss,
                   week_offset, expected_ecef, rc, sv, ret>>

\* lines 167-168: head of the epoch loop
NextEpoch ==
    /\ pc = "epoch"
    /\ IF ei > Len(nav.epochs)
       THEN /\ pc' = "close" /\ si' = si
       ELSE /\ si' = 1 /\ pc' = "sv"
    /\ UNCHANGED <<argv, listing, ri, fi, nav, ei, kepler, weeks, tgnss,
                   week_offset, expected_ecef, out, fdOpen, exc, rc, sv, ret>>

\* end of the with-block: the stream is closed and the fp loop goes on.  The
\* locals of the file are dead from here on (each is assigned again before
\* it is read), and the model clears them.
Close ==
    /\ pc = "close"
    /\ fdOpen' = FALSE /\ out' = << >>
    /\ nav' = NoNav /\ ei' = 0 /\ si' = 0
    /\ kepler' = << >> /\ weeks' = 0 /\ tgnss' = 0 /\ week_offset' = 0
    /\ expected_ecef' = None
    /\ fi' = fi + 1 /\ pc' = "file"
    /\ UNCHANGED <<argv, listing, ri, exc, rc, sv, ret>>

\* lines 169-175: head of the sv loop and the three skips
NextSv ==
    /\ pc = "sv"
    /\ IF si > Len(nav.vehicles)
       THEN /\ ei' = ei + 1 /\ pc' = "epoch" /\ si' = si
       ELSE IF sv_is_glonass(CurSv) THEN /\ si' = si + 1 /\ UNCHANGED <<ei, pc>>
       ELSE IF sv_is_sbas(CurSv) THEN /\ si' = si + 1 /\ UNCHANGED <<ei, pc>>
       ELSE IF sv_to_constell(CurSv) = None
       THEN /\ si' = si + 1 /\ UNCHANGED <<ei, pc>>
       ELSE /\ pc' = "build" /\ UNCHANGED <<ei, si>>
    /\ UNCHANGED <<argv, listing, ri, fi, nav, kepler, weeks, tgnss,
                   week_offset, expected_ecef, out, fdOpen, exc, rc, sv, ret>>

\* lines 177-183: the record of the pair, from the variables of the dataset
Build ==
    /\ pc = "build"
    /\ kepler' = NavRecord(nav, ei, si)
    /\ pc' = "ready"
    /\ UNCHANGED <<argv, listing, ri, fi, nav, ei, si, weeks, tgnss,
                   week_offset, expected_ecef, out, fdOpen, exc, rc, sv, ret>>

\* line 188: a record that is not ready is passed over
Ready ==
    /\ pc = "ready"
    /\ IF kepler_ready(kepler)
       THEN /\ pc' = "resolve" /\ si' = si
       ELSE /\ si' = si + 1 /\ pc' = "sv"
    /\ UNCHANGED <<argv, listing, ri, fi, nav, ei, kepler, weeks, tgnss,
                   week_offset, expected_ecef, out, fdOpen, exc, rc, sv, ret>>

\* lines 192-201.  An exception leaves the with-block, which closes the
\* stream, and then main.
ResolveBody_NoWeeks ==
    LET w == kepler_weekcounter(kepler)[1]
        t0 == timescale_t0(CurSv)
        o0 == AsDatetime(CurEpoch)
        o1 == o0 - t0.val
        o2 == o1 - w * Week
    IN  /\ weeks' = w
        /\ IF t0.raised # "none"
           THEN /\ exc' = t0.raised /\ pc' = "raised" /\ fdOpen' = FALSE
                /\ UNCHANGED <<tgnss, week_offset>>
           ELSE /\ week_offset' = o2
                /\ tgnss' = t0.val + o2
                /\ pc' = "convert"
                /\ UNCHANGED <<exc, fdOpen>>

ResolveBody_OffsetKeepsWeeks ==
    LET w == kepler_weekcounter(kepler)[1]
        t0 == timescale_t0(CurSv)
        t1 == t0.val + w * Week
        o0 == AsDatetime(CurEpoch)
        o1 == o0 - t0.val
    IN  /\ weeks' = w
        /\ IF t0.raised # "none"
           THEN /\ exc' = t0.raised /\ pc' = "raised" /\ fdOpen' = FALSE
                /\ UNCHANGED <<tgnss, week_offset>>
           ELSE /\ week_offset' = o1
                /\ tgnss' = t1 + o1
                /\ pc' = "convert"
                /\ UNCHANGED <<exc, fdOpen>>

ResolveBody ==
    LET w == kepler_weekcounter(kepler)[1]
        t0 == timescale_t0(CurSv)
        t1 == t0.val + w * Week
        o0 == AsDatetime(CurEpoch)
        o1 == o0 - t0.val
        o2 == o1 - w * Week
    IN  /\ weeks' = w
        /\ IF t0.raised # "none"
           THEN /\ exc' = t0.raised /\ pc' = "raised" /\ fdOpen' = FALSE
                /\ UNCHANGED <<tgnss, week_offset>>
           ELSE /\ week_offset' = o2
                /\ tgnss' = t1 + o2
                /\ pc' = "convert"
                /\ UNCHANGED <<exc, fdOpen>>

Resolve ==
    /\ pc = "resolve"
    /\ ResolveBody
    /\ UNCHANGED <<argv, listing, ri, fi, nav, ei, si, kepler,
                   expected_ecef, out, rc, sv, ret>>

\* lines 203-216: the delegated propagation returns a position, or raises
ConvertBody_SkipEntry ==
    \/ /\ expected_ecef' = Some(keplerian2ecef(kepler, tgnss))
       /\ pc' = "write"
       /\ UNCHANGED <<exc, fdOpen, si>>
    \/ /\ si' = si + 1 /\ pc' = "sv"
       /\ UNCHANGED <<expected_ecef, exc, fdOpen>>

ConvertBody ==
    \/ /\ expected_ecef' = Some(keplerian2ecef(kepler, tgnss))
       /\ pc' = "write"
       /\ UNCHANGED <<exc, fdOpen, si>>
    \/ /\ exc' = "ComputationFailure" /\ pc' = "raised" /\ fdOpen' = FALSE
       /\ UNCHANGED <<expected_ecef, si>>

Convert ==
    /\ pc = "convert"
    /\ ConvertBody
    /\ UNCHANGED <<argv, listing, ri, fi, nav, ei, kepler, weeks, tgnss,
                   week_offset, out, rc, sv, ret>>

\* lines 221-236: the entry is written, or a write raises OSError
WriteBody ==
    \/ /\ out' = Append(out, form_entry(CurEpoch, CurSv, expected_ecef[1], kepler))
       /\ si' = si + 1 /\ pc' = "sv"
       /\ UNCHANGED <<exc, fdOpen>>
    \/ /\ exc' = "OSError" /\ pc' = "raised" /\ fdOpen' = FALSE
       /\ UNCHANGED <<out, si>>

Write ==
    /\ pc = "write"
    /\ WriteBody
    /\ UNCHANGED <<argv, listing, ri, fi, nav, ei, kepler, weeks, tgnss,
                   week_offset, expected_ecef, rc, sv, ret>>

Next ==
    \/ Enter \/ NextRev \/ NextFile \/ Open \/ NextEpoch \/ Close
    \/ NextSv \/ Build \/ Ready \/ Resolve \/ Convert \/ Write

Spec == Init /\ [][Next]_vars

-----------------------------------------------------------------------------
(* kepler_ready as a function of its argument: the records it may be handed  *)
(* and one call of it.  sv is the satellite the record belongs to.           *)

RECURSIVE SubsetsUpTo(_, _)
SubsetsUpTo(S, n) ==
    IF n = 0 THEN { {} }
    ELSE LET P == SubsetsUpTo(S, n - 1)
         IN  P \cup { p \cup {x} : p \in P, x \in S }

\* a record with the fields `present`, those of `nans` NaN
MakeRecord(present, nans) ==
    [ field \in present |->
        IF field \in nans THEN NaN
        ELSE IF field \in WeekFields THEN WeekValue(field, Float(2100, 0))
        ELSE Float(1, 0) ]

PresentOf(wk, m) == ((Fields \ WeekFields) \ m) \cup wk

InitReady ==
    /\ argv = << >> /\ listing = << >> /\ ri = 0 /\ fi = 0
    /\ nav = NoNav /\ ei = 0 /\ si = 0
    /\ weeks = 0 /\ tgnss = 0 /\ week_offset = 0
    /\ expected_ecef = None /\ out = << >> /\ fdOpen = FALSE
    /\ exc = "none" /\ rc = None
    /\ pc = "call" /\ ret = FALSE
    /\ sv \in { s \in SvSamples : sv_to_constell(s) # None }
    \* any of the week counters, at most MaxMissing other fields missing, at
    \* most MaxNaN values NaN
    /\ \E wk \in SUBSET WeekFields :
       \E m \in SubsetsUpTo(Fields \ WeekFields, MaxMissing) :
       \E n \in SubsetsUpTo(PresentOf(wk, m), MaxNaN) :
          kepler = MakeRecord(PresentOf(wk, m), n)

\* line 188: kepler_ready(kepler)
CallKeplerReady ==
    /\ pc = "call"
    /\ ret' = kepler_ready(kepler)
    /\ pc' = "called"
    /\ UNCHANGED <<argv, listing, ri, fi, nav, ei, si, kepler, weeks, tgnss,
                   week_offset, expected_ecef, out, fdOpen, exc, rc, sv>>

NextReady == CallKeplerReady

SpecReady == InitReady /\ [][NextReady]_vars

-----------------------------------------------------------------------------
(* The readiness check (SpecReady) *)

\* the week-counter field the constellation of a satellite names (QZSS
\* reuses the field of GPS)
WeekFieldName(s) ==
    IF s[1] = "E" THEN "GALWeek"
    ELSE IF s[1] = "C" THEN "BDTWeek"
    ELSE "GPSWeek"

HoldsNaN(k) == \E f \in DOMAIN k : k[f].nan
OtherFieldsPresent(k) == (Fields \ WeekFields) \subseteq DOMAIN k

\* C1, as stated: a record that lacks the week counter named for its
\* satellite's constellation is rejected.
C1_NamedWeekCounterRequired ==
    (pc = "called" /\ WeekFieldName(sv) \notin DOMAIN kepler) => ret = FALSE

\* C1, amended: a record that holds none of GPSWeek, GALWeek, BDTWeek is
\* rejected; a record that holds the week counter of another constellation
\* only, and is otherwise complete and NaN-free, is accepted.
C1_SomeWeekCounterRequired ==
    pc = "called" =>
        /\ (DOMAIN kepler \cap WeekFields = {}) => ret = FALSE
        /\ ( /\ WeekFieldName(sv) \notin DOMAIN kepler
             /\ DOMAIN kepler \cap WeekFields # {}
             /\ OtherFieldsPresent(kepler)
             /\ ~HoldsNaN(kepler) ) => ret = TRUE

C1_Witness ==
    /\ pc = "called"
    /\ DOMAIN kepler = Fields \ WeekFields
    /\ ~HoldsNaN(kepler)
    /\ ret = FALSE

\* C2: a record that holds NaN in any field, a week counter included, is
\* rejected, whatever fields it has.
C2_NaNRejected ==
    (pc = "called" /\ HoldsNaN(kepler)) => ret = FALSE

C2_Witness ==
    /\ pc = "called"
    /\ DOMAIN kepler = Fields
    /\ kepler["GPSWeek"].nan
    /\ \A f \in Fields \ {"GPSWeek"} : ~kepler[f].nan
    /\ ret = FALSE

\* C3: a record from which a required field other than the week counters is
\* missing is rejected, whatever the fields that are present hold.
C3_MissingFieldRejected ==
    (pc = "called" /\ ~OtherFieldsPresent(kepler)) => ret = FALSE

C3_Witness ==
    /\ pc = "called"
    /\ DOMAIN kepler = Fields \ {"M0"}
    /\ ~HoldsNaN(kepler)
    /\ ret = FALSE

-----------------------------------------------------------------------------
(* The driver (Spec) *)

Supported(s) == s[1] \in {"G", "E", "C", "J"}
OnPair == ei \in DOMAIN nav.epochs /\ si \in DOMAIN nav.vehicles
Resolved == pc \in {"convert", "write"}

\* C4: while the driver handles a ready record of a QZSS satellite it raises
\* no NameError, and the origin it resolved is 1980-01-06.
C4_QzssResolved ==
    (OnPair /\ CurSv[1] = "J" /\ pc \in {"convert", "write", "raised"}) =>
        /\ exc # "NameError"
        /\ tgnss - weeks * Week - week_offset = Origin

\* C5: the resolved epoch is the origin 1980-01-06 plus the week count in
\* whole weeks (7 days each) plus the within-week offset.
C5_ResolvedEpoch ==
    Resolved => tgnss = Origin + weeks * (7 * 24) + week_offset

C5_Witness ==
    /\ pc = "convert"
    /\ weeks = 2100
    /\ week_offset = 0
    /\ tgnss = Origin + 2100 * 7 * 24

\* C6: a satellite whose first character is none of G, E, C, J never gets a
\* record built, checked, resolved, converted or written, and no entry of
\* the output belongs to it.
C6_UnsupportedSkipped ==
    /\ pc \in {"build", "ready", "resolve", "convert", "write"} => Supported(CurSv)
    /\ \A i \in DOMAIN out :
          out[i].constellation \in
              { <<"GPS">>, <<"GAL">>, <<"BDT">>, <<"QZSS">> }

C6_Witness ==
    /\ pc = "sv"
    /\ ei = 1 /\ si = 3
    /\ nav.vehicles[2][1] = "R"
    /\ nav.vars = Fields /\ nav.nanAt = NoNaN
    /\ Len(out) = 1

MoreToDo ==
    \/ OnPair /\ (ei < Len(nav.epochs) \/ si < Len(nav.vehicles))
    \/ fi < Len(listing[ri].files)
    \/ \E r \in (ri + 1)..Len(listing) :
          listing[r].rev \in supported_rev /\ listing[r].files # << >>

\* C7, as stated: a failed propagation does not end the run.
C7_FailureSkipsEntry ==
    exc = "ComputationFailure" => pc # "raised"

\* C7, amended: a failed propagation raises out of main.  The step from the
\* conversion either yields a position for the entry, or ends the run with
\* the stream closed, the output as it was and no return value; nothing is
\* processed after an exception.
C7_FailureEndsRun ==
    [][ /\ pc # "raised"
        /\ pc = "convert" =>
              \/ pc' = "write" /\ expected_ecef' # None
              \/ /\ pc' = "raised" /\ exc' = "ComputationFailure"
                 /\ rc' = None /\ ~fdOpen' /\ out' = out ]_vars

C7_Witness ==
    /\ pc = "raised" /\ exc = "ComputationFailure"
    /\ rc = None
    /\ MoreToDo

\* C8, as stated: a failure of the output stream does not end the run.
C8_IOFailureKeepsTraversal ==
    exc = "OSError" => pc # "raised"

\* C8, amended: when the output stream cannot be opened or written the
\* exception leaves main: the step ends the run with no return value, and no
\* later file is loaded.
C8_IOFailureEndsRun ==
    [][ /\ pc = "raised" => (nav' = nav /\ fi' = fi /\ ri' = ri)
        /\ pc = "open" =>
              \/ pc' = "epoch" /\ fdOpen'
              \/ pc' = "raised" /\ exc' = "OSError" /\ rc' = None /\ nav' = nav
        /\ pc = "write" =>
              \/ pc' = "sv" /\ Len(out') = Len(out) + 1
              \/ pc' = "raised" /\ exc' = "OSError" /\ rc' = None /\ ~fdOpen' ]_vars

C8_Witness ==
    /\ pc = "raised" /\ exc = "OSError"
    /\ rc = None
    /\ \/ fi < Len(listing[ri].files)
       \/ \E r \in (ri + 1)..Len(listing) :
             listing[r].rev \in supported_rev /\ listing[r].files # << >>

\* the (epoch, satellite) pairs of a dataset, epochs in the outer loop and
\* satellites in the inner one: the k-th pair
PairEpoch(d, k) == ((k - 1) \div Len(d.vehicles)) + 1
PairSv(d, k) == ((k - 1) % Len(d.vehicles)) + 1

\* the first n pairs, restricted to those supported and ready
RECURSIVE ReadyPairs(_, _)
ReadyPairs(d, n) ==
    IF n = 0 THEN << >>
    ELSE LET e == PairEpoch(d, n)
             s == PairSv(d, n)
         IN  IF Supported(d.vehicles[s]) /\ kepler_ready(NavRecord(d, e, s))
             THEN Append(ReadyPairs(d, n - 1), << d.epochs[e], d.vehicles[s] >>)
             ELSE ReadyPairs(d, n - 1)

\* the pair an entry is about
EntryPairs == [ i \in DOMAIN out |->
                  << out[i].epoch,
                     CHOOSE s \in SvSamples :
                        /\ s[2] = out[i].prn
                        /\ sv_to_constell(s) = out[i].constellation >> ]

\* the pairs the driver is through with: those before the pair it is on,
\* and the pair it gave up with an exception of its own
PairsHandled ==
    IF pc = "close" THEN Len(nav.epochs) * Len(nav.vehicles)
    ELSE IF pc = "sv" THEN (ei - 1) * Len(nav.vehicles) + (si - 1)
    ELSE (ei - 1) * Len(nav.vehicles) + si

\* C9: the entries of a file's stream are the supported and ready pairs the
\* driver is through with, one entry each, in the order of the enumeration
\* (propagation and stream failures of the collaborators left aside).
C9_EntriesInOrder ==
    (pc \in {"sv", "close"} \/ (pc = "raised" /\ exc = "NameError")) =>
        EntryPairs = ReadyPairs(nav, PairsHandled)

\* C10: the epoch handed to the propagation is the recording epoch, whatever
\* the week counter of the record, and so is the one of every entry written.
C10_ResolvedIsRecordingEpoch ==
    /\ Resolved => tgnss * NsPerUs = CurEpoch
    /\ \A i \in DOMAIN out : out[i].ecef[2] * NsPerUs = out[i].epoch

C10_Witness ==
    /\ pc = "convert"
    /\ week_offset \notin 0..(Week - 1)
    /\ tgnss * NsPerUs = CurEpoch

=============================================================================
